---- MODULE Spec2Model ----
(***************************************************************************)
(* A model of rdhcp: the DHCPv4/BOOTP packet codec (src/src/packet.rs,     *)
(* src/src/options.rs) and the receive/decode/handle/reply loop            *)
(* (src/src/lib.rs).                                                       *)
(*                                                                         *)
(* Byte strings are sequences of integers in 0..255.  Rust offsets are     *)
(* zero based; At and Slice keep the offsets of the source.                *)
(* Enumerations with #[repr(u8)] that are only ever compared and cast      *)
(* (OptionCode) are modelled by their discriminant; OpCode, HardwareType   *)
(* and MessageType are modelled by their variant names.                    *)
(***************************************************************************)
EXTENDS Integers, Sequences, FiniteSets, TLC

VARIABLES
    \* ---- dispatcher (src/src/lib.rs) ----
    pc,          \* position of run_server_with_socket
    workers,     \* the _workers argument
    buf,         \* the receive buffer, let mut buf = [0; 1500]
    size,        \* byte count returned by the last recv_from
    src,         \* source address returned by the last recv_from
    datagram,    \* history: the datagram the transport delivered last
    src_packet,  \* the decoded request handed to process_packet
    src_broadcast,
    src_has_giaddr,
    reply,       \* Some(p) returned by the handler, or None
    data,        \* the encoded reply
    dest,        \* the address handed to send_to
    result,      \* return value of run_server_with_socket, "running" before
    trace,       \* history: the transport and handler calls made so far
    nrecv,       \* history: number of recv_from calls made
    \* ---- codec (src/src/packet.rs) ----
    cpc,         \* position of the codec exercise
    bytes,       \* input of Packet::try_from
    decoded,     \* its result
    pkt,         \* input of Vec<u8>::from(&Packet)
    encoded,     \* its result
    mtype,       \* result of Packet::message_type
    \* ---- catalogs, flag accessors and HardwareAddr ----
    cbyte,       \* input byte of the catalogs' try_from
    catalog,     \* their results, by catalog
    bcast_arg,   \* argument of the last set_broadcast call
    bflag,       \* result of the last broadcast_flag call
    hw_text,     \* input of HardwareAddr::from_str
    hw_addr,     \* its result
    hw_shown,    \* result of formatting the parsed address
    hw_bcast     \* result of is_broadcast on the parsed address

dvars == <<pc, workers, buf, size, src, datagram, src_packet, src_broadcast,
           src_has_giaddr, reply, data, dest, result, trace, nrecv>>
cvars == <<cpc, bytes, decoded, pkt, encoded, mtype>>
uvars == <<cbyte, catalog, bcast_arg, bflag, hw_text, hw_addr, hw_shown, hw_bcast>>
vars == <<pc, workers, buf, size, src, datagram, src_packet, src_broadcast,
          src_has_giaddr, reply, data, dest, result, trace, nrecv,
          cpc, bytes, decoded, pkt, encoded, mtype,
          cbyte, catalog, bcast_arg, bflag, hw_text, hw_addr, hw_shown, hw_bcast>>

----------------------------------------------------------------------------
(* Program constants *)

HeaderLen == 240

BufLen == 1500

SnameLen == 64

FileLen == 128

DHCP_COOKIE == <<99, 130, 83, 99>>

U8 == 256

----------------------------------------------------------------------------
(* Rust slices and results *)

At(s, i) == s[i + 1]

Slice(s, a, b) == SubSeq(s, a + 1, b)

\* iter().take(n) with a plausible slip: the limit is dropped
TakeNoLimit(s, n) == s

\* iter().take(n)
Take(s, n) == IF Len(s) <= n THEN s ELSE SubSeq(s, 1, n)

Zeros(n) == [i \in 1..n |-> 0]

Ok(v) == [ok |-> TRUE, val |-> v]

Err(e) == [ok |-> FALSE, err |-> e]

None == [some |-> FALSE]

Some(v) == [some |-> TRUE, val |-> v]

----------------------------------------------------------------------------
(* Symbol catalogs *)

MessageTypeName ==
    <<"Discover", "Offer", "Request", "Decline", "ACK", "NAK", "Release", "Inform">>

\* MessageType::try_from with a plausible slip: the wildcard arm yields the
\* Unknown variant instead of an error
MessageTypeTryFromUnknown(code) ==
    IF code \in 1..8 THEN Ok(MessageTypeName[code])
    ELSE Ok("Unknown")

\* MessageType::try_from with a plausible slip: the arms are numbered from
\* zero
MessageTypeTryFromZeroBased(code) ==
    IF code \in 0..7 THEN Ok(MessageTypeName[code + 1])
    ELSE Err("message type out of range")

MessageTypeTryFrom(code) ==
    IF code \in 1..8 THEN Ok(MessageTypeName[code])
    ELSE Err("message type out of range")

End == 255

Pad == 0

DHCPMessageType == 53

OptionCodes ==
    (0..61) \cup (64..77) \cup {82, 93, 100, 101, 121, 255}

OptionCodeTryFrom(code) ==
    IF code \in OptionCodes THEN Ok(code)
    ELSE Err("option code out of range")

OptionCodeAsU8(code) == code

OpCodeTryFrom(code) ==
    CASE code = 1 -> Ok("BootRequest")
      [] code = 2 -> Ok("BootReply")
      [] OTHER -> Err("opcode out of range")

OpCodeAsU8(op) == IF op = "BootRequest" THEN 1 ELSE 2

HardwareTypeTryFrom(htype) ==
    CASE htype = 1 -> Ok("Ethernet")
      [] OTHER -> Err("hardware type out of range")

HardwareTypeAsU8(ht) == 1

----------------------------------------------------------------------------
(* Helpers of packet.rs *)

bytes_to_ip_addr(b) == <<b[1], b[2], b[3], b[4]>>

\* A u32 is kept as its two 16-bit halves, v = hi * 2^16 + lo (the model
\* checker's integers are 32-bit signed and cannot hold 2^32 - 1).
U32(hi, lo) == [hi |-> hi, lo |-> lo]

bytes_to_u32(b) ==
    IF Len(b) = 4
    THEN U32(b[1] * 256 + b[2], b[3] * 256 + b[4])
    ELSE U32(0, 0)

\* u32_to_bytes with a plausible slip: least significant byte first
u32_to_bytes_le(v) ==
    <<v.lo % U8, (v.lo \div 256) % U8, v.hi % U8, (v.hi \div 256) % U8>>

u32_to_bytes(v) ==
    <<(v.hi \div 256) % U8, v.hi % U8, (v.lo \div 256) % U8, v.lo % U8>>

\* trim_null with a plausible slip: the loop skips NUL bytes instead of
\* stopping at the first one
trim_null_skip(b) == SelectSeq(b, LAMBDA x : x # 0)

trim_null(b) ==
    LET nul == {i \in 1..Len(b) : b[i] = 0}
    IN  IF nul = {} THEN b
        ELSE SubSeq(b, 1, (CHOOSE i \in nul : \A j \in nul : i <= j) - 1)

HardwareAddrFromSlice(value) ==
    <<value[1], value[2], value[3], value[4], value[5], value[6]>>

\* IpAddr::is_unspecified: 0.0.0.0 for V4, :: for V6
is_unspecified(ip) == \A i \in 1..Len(ip.octets) : ip.octets[i] = 0

\* Ipv4Addr::is_unspecified
ipv4_is_unspecified(a) == a = <<0, 0, 0, 0>>

----------------------------------------------------------------------------
(* Option decode: Packet::parse_options *)

EmptyMap == [c \in {} |-> <<>>]

Insert(m, code, value) ==
    [c \in (DOMAIN m) \cup {code} |-> IF c = code THEN value ELSE m[c]]

\* The loop body with a plausible slip: an unrecognized code is skipped as
\* one code/length/value triple instead of ending the scan
ParseStepSkipUnknown(st) ==
    LET ob == st.option_bytes
        stop == [st EXCEPT !.done = TRUE]
    IN  IF ~(Len(ob) >= 2) THEN stop
        ELSE LET c == OptionCodeTryFrom(ob[1])
                 sz == ob[2]
             IN  IF c.ok /\ c.val = End THEN stop
                 ELSE IF c.ok /\ c.val = Pad
                      THEN [st EXCEPT !.option_bytes = Slice(ob, 1, Len(ob))]
                 ELSE IF Len(ob) < sz + 2 THEN stop
                 ELSE [option_bytes |-> Slice(ob, 2 + sz, Len(ob)),
                       m |-> IF c.ok
                             THEN Insert(st.m, c.val, Slice(ob, 2, 2 + sz))
                             ELSE st.m,
                       done |-> FALSE]

\* One evaluation of the while condition and, if it holds, of the loop body.
ParseStep(st) ==
    LET ob == st.option_bytes
        stop == [st EXCEPT !.done = TRUE]
    IN  IF ~(Len(ob) >= 2) THEN stop
        ELSE LET c == OptionCodeTryFrom(ob[1])
             IN  IF ~c.ok THEN stop
                 ELSE IF c.val = End THEN stop
                 ELSE IF c.val = Pad
                      THEN [st EXCEPT !.option_bytes = Slice(ob, 1, Len(ob))]
                 ELSE LET sz == ob[2]
                      IN  IF Len(ob) < sz + 2 THEN stop
                          ELSE [option_bytes |-> Slice(ob, 2 + sz, Len(ob)),
                                m |-> Insert(st.m, c.val, Slice(ob, 2, 2 + sz)),
                                done |-> FALSE]

RECURSIVE ParseLoop(_)
ParseLoop(st) == IF st.done THEN st ELSE ParseLoop(ParseStep(st))

parse_options(s) ==
    IF Len(s) <= HeaderLen THEN EmptyMap
    ELSE ParseLoop([option_bytes |-> Slice(s, HeaderLen, Len(s)),
                    m |-> EmptyMap, done |-> FALSE]).m

----------------------------------------------------------------------------
(* Packet decode: impl TryFrom<&[u8]> for Packet *)

\* The struct literal of try_from: its fields are evaluated in the order
\* written, and the two ? operators return the catalog's error.
PacketLiteral(s) ==
    IF ~OpCodeTryFrom(At(s, 0)).ok THEN Err(OpCodeTryFrom(At(s, 0)).err)
    ELSE IF ~HardwareTypeTryFrom(At(s, 1)).ok
         THEN Err(HardwareTypeTryFrom(At(s, 1)).err)
    ELSE Ok([opcode |-> OpCodeTryFrom(At(s, 0)).val,
             htype |-> HardwareTypeTryFrom(At(s, 1)).val,
             hlen |-> At(s, 2),
             hops |-> At(s, 3),
             xid |-> bytes_to_u32(Slice(s, 4, 8)),
             secs |-> At(s, 8) * 256 + At(s, 9),
             flags |-> At(s, 10) * 256 + At(s, 11),
             ciaddr |-> bytes_to_ip_addr(Slice(s, 12, 16)),
             yiaddr |-> bytes_to_ip_addr(Slice(s, 16, 20)),
             siaddr |-> bytes_to_ip_addr(Slice(s, 20, 24)),
             giaddr |-> bytes_to_ip_addr(Slice(s, 24, 28)),
             chaddr |-> HardwareAddrFromSlice(Slice(s, 28, 34)),
             sname |-> trim_null(Slice(s, 44, 108)),
             file |-> trim_null(Slice(s, 108, 236)),
             cookie |-> Slice(s, 236, 240),
             options |-> parse_options(s)])

\* try_from with a plausible slip: the hardware length is checked before
\* the cookie
TryFromHlenFirst(s) ==
    IF Len(s) < HeaderLen THEN Err("packet too small")
    ELSE IF At(s, 2) # 6 THEN Err("hardware addresses must be 6 bytes")
    ELSE IF Slice(s, 236, 240) # DHCP_COOKIE THEN Err("DHCP cookie invalid")
    ELSE PacketLiteral(s)

\* try_from with a plausible slip: an option region that does not end at
\* End or at the end of the input is reported as an error
TryFromStrictOptions(s) ==
    IF Len(s) < HeaderLen THEN Err("packet too small")
    ELSE IF Slice(s, 236, 240) # DHCP_COOKIE THEN Err("DHCP cookie invalid")
    ELSE IF At(s, 2) # 6 THEN Err("hardware addresses must be 6 bytes")
    ELSE IF /\ Len(s) > HeaderLen
            /\ LET rest == ParseLoop([option_bytes |-> Slice(s, HeaderLen, Len(s)),
                                      m |-> EmptyMap, done |-> FALSE]).option_bytes
               IN  rest # <<>> /\ rest[1] # End
         THEN Err("malformed options")
    ELSE PacketLiteral(s)

TryFrom(s) ==
    IF Len(s) < HeaderLen THEN Err("packet too small")
    ELSE IF Slice(s, 236, 240) # DHCP_COOKIE THEN Err("DHCP cookie invalid")
    ELSE IF At(s, 2) # 6 THEN Err("hardware addresses must be 6 bytes")
    ELSE PacketLiteral(s)

----------------------------------------------------------------------------
(* Accessors *)

broadcast_flag(p) == (p.flags \div 256) > 127

U16 == 65536

\* set_broadcast with a plausible slip: only the broadcast bit is set or
\* cleared, the other flag bits are kept
set_broadcast_bit_only(p, broadcast) ==
    [p EXCEPT !.flags = IF broadcast THEN (p.flags % 32768) + 32768
                        ELSE p.flags % 32768]

set_broadcast(p, broadcast) ==
    [p EXCEPT !.flags = IF broadcast THEN (1 * 32768) % U16 ELSE 0]

message_type(p) ==
    IF DHCPMessageType \in DOMAIN p.options
    THEN LET mt == p.options[DHCPMessageType]
         IN  IF Len(mt) = 0 THEN None
             ELSE IF MessageTypeTryFrom(mt[1]).ok
                  THEN Some(MessageTypeTryFrom(mt[1]).val)
                  ELSE None
    ELSE None

----------------------------------------------------------------------------
(* Packet encode: impl From<&Packet> for Vec<u8> and format_options *)

\* v[off..off+len].copy_from_slice(b), and the indexed stores of the loops
WriteAt(v, off, b) ==
    LET n == IF Len(b) <= Len(v) - off THEN Len(b) ELSE Len(v) - off
    IN  SubSeq(v, 1, off) \o SubSeq(b, 1, n) \o SubSeq(v, off + n + 1, Len(v))

\* The orders in which a HashMap with these keys can be iterated
Orders(m) ==
    {o \in [1..Cardinality(DOMAIN m) -> DOMAIN m] :
        \A i, j \in DOMAIN o : i # j => o[i] # o[j]}

RECURSIVE format_options(_, _)
format_options(options, order) ==
    IF order = <<>> THEN <<>>
    ELSE LET code == Head(order)
             value == options[code]
         IN  <<OptionCodeAsU8(code), Len(value) % U8>> \o value
                 \o format_options(options, Tail(order))

Into(packet, order) ==
    LET v0 == Zeros(HeaderLen)
        v1 == WriteAt(v0, 0, <<OpCodeAsU8(packet.opcode)>>)
        v2 == WriteAt(v1, 1, <<HardwareTypeAsU8(packet.htype)>>)
        v3 == WriteAt(v2, 2, <<packet.hlen>>)
        v4 == WriteAt(v3, 4, u32_to_bytes(packet.xid))
        v5 == WriteAt(v4, 10, <<(packet.flags \div 256) % U8>>)
        v6 == WriteAt(v5, 11, <<packet.flags % U8>>)
        v7 == WriteAt(v6, 12, packet.ciaddr)
        v8 == WriteAt(v7, 16, packet.yiaddr)
        v9 == WriteAt(v8, 20, packet.siaddr)
        v10 == WriteAt(v9, 24, packet.giaddr)
        v11 == WriteAt(v10, 28, packet.chaddr)
        v12 == WriteAt(v11, 44, Take(packet.sname, SnameLen))
        v13 == WriteAt(v12, 108, Take(packet.file, FileLen))
        v14 == WriteAt(v13, 236, DHCP_COOKIE)
    IN  v14 \o format_options(packet.options, order)

----------------------------------------------------------------------------
(* Bounds of the model *)

\* longest option region enumerated byte by byte
MaxOptLen == 5

\* longest option value handed to the encoder
MaxValueLen == 257

\* how far sname and file may exceed their windows
MaxOver == 6

\* number of datagrams the transport delivers
MaxRecv == 3

----------------------------------------------------------------------------
(* Inputs of the decoder *)

\* The wire image of a message, field by field (spec section 6 layout,
\* as in TEST_MESSAGE of the unit tests).
Datagram(f) ==
    <<f.op, f.htype, f.hlen, f.hops>> \o f.xid \o f.secs \o f.flags
        \o f.ciaddr \o f.yiaddr \o f.siaddr \o f.giaddr \o f.chaddr
        \o f.sname \o f.file \o f.cookie \o f.opts

TEST_MESSAGE ==
    [op |-> 1, htype |-> 1, hlen |-> 6, hops |-> 0,
     xid |-> <<5, 6, 7, 8>>, secs |-> <<0, 0>>, flags |-> <<11, 12>>,
     ciaddr |-> <<13, 14, 15, 16>>, yiaddr |-> <<17, 18, 19, 20>>,
     siaddr |-> <<21, 22, 23, 24>>, giaddr |-> <<25, 26, 27, 28>>,
     chaddr |-> <<41, 48, 49, 50, 51, 52>> \o Zeros(10),
     sname |-> [i \in 1..63 |-> 44 + i] \o <<0>>,
     file |-> [i \in 1..120 |-> 109 + ((i - 1) % 17)] \o Zeros(8),
     cookie |-> DHCP_COOKIE,
     opts |-> <<>>]

SnameWindows ==
    {Zeros(64),
     <<97, 98, 99>> \o Zeros(61),
     <<97, 98, 0, 99, 100>> \o Zeros(59),
     [i \in 1..64 |-> 64 + i]}

FileWindows ==
    {Zeros(128),
     <<0, 7>> \o Zeros(126),
     [i \in 1..128 |-> 1 + (i % 100)]}

OneOptionRegions ==
    {<<>>, <<53, 1, 1>>, <<12, 0>>, <<1, 4, 255, 255, 255, 0>>,
     <<53, 1, 1, 255>>, <<0, 53, 1, 3>>, <<53, 1>>}

Prefix(s, n) == IF Len(s) <= n THEN s ELSE SubSeq(s, 1, n)

\* every combination of failing and passing header checks, at several lengths
HeaderCheckInputs ==
    {Prefix(Datagram([TEST_MESSAGE EXCEPT !.op = o, !.htype = t, !.hlen = h,
                                        !.cookie = c, !.opts = <<53, 1, 1>>]), n) :
        o \in {0, 1, 2, 3}, t \in {0, 1, 2}, h \in {0, 6, 16},
        c \in {DHCP_COOKIE, <<99, 130, 83, 98>>, <<0, 130, 83, 99>>},
        n \in {0, 10, 239, 240, 243}}

\* well-formed headers with every field that encode treats specially
RoundTripInputs ==
    {Datagram([TEST_MESSAGE EXCEPT !.hops = h, !.secs = s, !.chaddr = ch,
                                   !.sname = sn, !.file = fl, !.opts = op]) :
        h \in {0, 3}, s \in {<<0, 0>>, <<1, 2>>},
        ch \in {<<41, 48, 49, 50, 51, 52>> \o Zeros(10),
                <<41, 48, 49, 50, 51, 52>> \o [i \in 1..10 |-> i]},
        sn \in SnameWindows, fl \in FileWindows, op \in OneOptionRegions}

OptAlphabet == {0, 1, 2, 62, 255}

OptRegions == UNION {[1..n -> OptAlphabet] : n \in 0..MaxOptLen}

\* every option region over a small alphabet: Pad, two codes, an
\* unrecognized code and End, each also read as a length byte
OptionInputs ==
    {Datagram([TEST_MESSAGE EXCEPT !.opts = t]) : t \in OptRegions}

\* option regions that end badly: a lone byte, a truncated option, an
\* unrecognized code, no End, bytes after End
MalformedTails ==
    {<<>>, <<53>>, <<53, 1>>, <<62, 1, 1>>, <<1, 4, 255>>, <<12, 0, 1>>,
     <<53, 1, 1, 255>>, <<0, 0>>, <<53, 1, 1, 12, 200, 1>>,
     <<53, 1, 1, 255, 12, 1, 104>>, <<53, 1, 1, 62>>}

\* passing and failing headers, each followed by every such region
MalformedTailInputs ==
    {Datagram([TEST_MESSAGE EXCEPT !.op = o, !.htype = t, !.hlen = h,
                                   !.cookie = c, !.opts = tl]) :
        o \in {0, 1}, t \in {0, 1}, h \in {6, 16},
        c \in {DHCP_COOKIE, <<99, 130, 83, 98>>}, tl \in MalformedTails}

DecodeInputs ==
    HeaderCheckInputs \cup RoundTripInputs \cup OptionInputs
        \cup MalformedTailInputs

----------------------------------------------------------------------------
(* Inputs of the encoder *)

BasePacket ==
    [opcode |-> "BootReply", htype |-> "Ethernet", hlen |-> 6, hops |-> 0,
     xid |-> U32(1286, 1800), secs |-> 0, flags |-> 0,
     ciaddr |-> <<0, 0, 0, 0>>, yiaddr |-> <<10, 0, 0, 7>>,
     siaddr |-> <<10, 0, 0, 1>>, giaddr |-> <<0, 0, 0, 0>>,
     chaddr |-> <<41, 48, 49, 50, 51, 52>>,
     sname |-> <<>>, file |-> <<>>, cookie |-> DHCP_COOKIE,
     options |-> EmptyMap]

DirtyPacket ==
    [BasePacket EXCEPT !.hops = 7, !.secs = 513, !.cookie = <<1, 2, 3, 4>>,
                       !.hlen = 16, !.giaddr = <<25, 26, 27, 28>>,
                       !.ciaddr = <<13, 14, 15, 255>>]

Fill(n, b) == [i \in 1..n |-> b]

OneEntry(code, value) == Insert(EmptyMap, code, value)

FixedFieldPackets ==
    {[BasePacket EXCEPT !.hops = h, !.secs = s, !.cookie = c, !.flags = fl,
                        !.opcode = o, !.xid = x] :
        h \in {0, 7}, s \in {0, 513}, c \in {DHCP_COOKIE, <<1, 2, 3, 4>>},
        fl \in {0, 32768, 2828, 65535}, o \in {"BootRequest", "BootReply"},
        x \in {U32(0, 0), U32(1286, 1800), U32(65535, 65535)}}

NamePackets ==
    {[DirtyPacket EXCEPT !.sname = Fill(sl, 115), !.file = Fill(fl, 102)] :
        sl \in {0, 1, SnameLen - 1, SnameLen, SnameLen + 1, SnameLen + MaxOver},
        fl \in {0, FileLen - 1, FileLen, FileLen + 1, FileLen + MaxOver}}

MessageTypePayloads ==
    {<<>>} \cup {<<b>> : b \in (0..10) \cup {254, 255}}
           \cup {<<b, 7>> : b \in (0..10) \cup {254, 255}}

MessageTypePackets ==
    {[BasePacket EXCEPT !.options = OneEntry(DHCPMessageType, v)] :
        v \in MessageTypePayloads}
    \cup {[BasePacket EXCEPT !.options = Insert(OneEntry(12, <<104>>), 54, v)] :
        v \in MessageTypePayloads}

OptionMaps ==
    {EmptyMap, OneEntry(12, <<>>), OneEntry(End, <<>>), OneEntry(Pad, <<5>>),
     Insert(OneEntry(DHCPMessageType, <<2>>), 12, <<104, 105>>),
     Insert(Insert(OneEntry(DHCPMessageType, <<5>>), 51, <<0, 0, 14, 16>>),
            1, <<255, 255, 255, 0>>)}
    \cup {OneEntry(12, Fill(n, 120)) : n \in {1, 255, 256, MaxValueLen}}
    \cup {Insert(OneEntry(DHCPMessageType, <<2>>), 12, Fill(n, 120)) :
            n \in {255, MaxValueLen}}

OptionPackets ==
    {[p EXCEPT !.options = m] : p \in {BasePacket, DirtyPacket}, m \in OptionMaps}

\* packets with names up to their full width and several options,
\* together with ones whose names hold a zero byte
FullPackets ==
    {[BasePacket EXCEPT !.opcode = o, !.flags = fl, !.sname = sn, !.file = f,
                        !.options = m] :
        o \in {"BootRequest", "BootReply"}, fl \in {0, 32769},
        sn \in {<<>>, <<115>>, Fill(SnameLen, 115), <<115, 0, 116>>},
        f \in {<<>>, Fill(FileLen - 1, 102), Fill(FileLen, 102), <<0>>},
        m \in {EmptyMap,
               Insert(OneEntry(12, <<>>), DHCPMessageType, <<2>>),
               Insert(Insert(OneEntry(DHCPMessageType, <<5>>), 51, <<0, 0, 14, 16>>),
                      1, <<255, 255, 255, 0>>),
               Insert(OneEntry(12, Fill(U8 - 1, 120)), 121, <<0, 255>>)}}

PacketInputs ==
    FixedFieldPackets \cup NamePackets \cup MessageTypePackets \cup OptionPackets
        \cup FullPackets

----------------------------------------------------------------------------
(* The codec exercised on its own: decode then re-encode a byte string,    *)
(* and encode / query a Packet value.                                      *)

NoAddr == [ip |-> [fam |-> "none", octets |-> <<>>], port |-> 0]

NotRun == [mt |-> None, op |-> None, ht |-> None, oc |-> None]

UnitOff ==
    /\ cbyte = 0 /\ catalog = NotRun
    /\ bcast_arg = None /\ bflag = None
    /\ hw_text = <<>> /\ hw_addr = None /\ hw_shown = None /\ hw_bcast = None

DispatcherOff ==
    /\ pc = "off" /\ workers = 0 /\ buf = <<>> /\ size = 0
    /\ src = NoAddr
    /\ datagram = <<>> /\ src_packet = None
    /\ src_broadcast = FALSE /\ src_has_giaddr = FALSE
    /\ reply = None /\ data = <<>> /\ dest = NoAddr /\ result = "running"
    /\ trace = <<>> /\ nrecv = 0

InitDecode ==
    /\ DispatcherOff
    /\ UnitOff
    /\ cpc = {}
    /\ bytes \in DecodeInputs
    /\ decoded = Err("not run")
    /\ pkt = BasePacket
    /\ encoded = <<>>
    /\ mtype = None

\* Packet::try_from(bytes)
DecodeStep ==
    /\ "dec" \notin cpc
    /\ cpc' = cpc \cup {"dec"}
    /\ decoded' = TryFrom(bytes)
    /\ UNCHANGED <<bytes, pkt, encoded, mtype>>
    /\ UNCHANGED dvars
    /\ UNCHANGED uvars

\* Vec<u8>::from(&packet) on the packet just decoded
ReencodeStep ==
    /\ "dec" \in cpc /\ "enc" \notin cpc
    /\ decoded.ok
    /\ cpc' = cpc \cup {"enc"}
    /\ \E order \in Orders(decoded.val.options) :
          encoded' = Into(decoded.val, order)
    /\ UNCHANGED <<bytes, decoded, pkt, mtype>>
    /\ UNCHANGED dvars
    /\ UNCHANGED uvars

NextDecode == DecodeStep \/ ReencodeStep

SpecDecode == InitDecode /\ [][NextDecode]_vars

InitEncode ==
    /\ DispatcherOff
    /\ UnitOff
    /\ cpc = {}
    /\ bytes = <<>>
    /\ decoded = Err("not run")
    /\ pkt \in PacketInputs
    /\ encoded = <<>>
    /\ mtype = None

\* Vec<u8>::from(&pkt)
EncodeStep ==
    /\ "enc" \notin cpc
    /\ cpc' = cpc \cup {"enc"}
    /\ \E order \in Orders(pkt.options) : encoded' = Into(pkt, order)
    /\ UNCHANGED <<bytes, decoded, pkt, mtype>>
    /\ UNCHANGED dvars
    /\ UNCHANGED uvars

\* pkt.message_type()
MessageTypeStep ==
    /\ "mt" \notin cpc
    /\ cpc' = cpc \cup {"mt"}
    /\ mtype' = message_type(pkt)
    /\ UNCHANGED <<bytes, decoded, pkt, encoded>>
    /\ UNCHANGED dvars
    /\ UNCHANGED uvars

\* Packet::try_from on the bytes just encoded
RedecodeStep ==
    /\ "enc" \in cpc /\ "redec" \notin cpc
    /\ cpc' = cpc \cup {"redec"}
    /\ decoded' = TryFrom(encoded)
    /\ UNCHANGED <<bytes, pkt, encoded, mtype>>
    /\ UNCHANGED dvars
    /\ UNCHANGED uvars

NextEncode == EncodeStep \/ MessageTypeStep \/ RedecodeStep

SpecEncode == InitEncode /\ [][NextEncode]_vars

----------------------------------------------------------------------------
(* The dispatcher: run_server_with_socket and process_packet               *)
(*                                                                         *)
(* One action per call the loop makes on the transport or the handler.     *)
(* The loop's locals keep their last value until the next recv_from.       *)

V4(a, b, c, d) == [fam |-> "V4", octets |-> <<a, b, c, d>>]

SocketAddr(ip, port) == [ip |-> ip, port |-> port]

BROADCAST == V4(255, 255, 255, 255)

\* what the transport may deliver
Sources ==
    {SocketAddr(V4(0, 0, 0, 0), 68),
     SocketAddr(V4(192, 168, 1, 10), 68),
     SocketAddr(V4(10, 0, 0, 1), 67),
     SocketAddr([fam |-> "V6", octets |-> Zeros(16)], 546)}

Datagrams ==
    {Datagram([TEST_MESSAGE EXCEPT !.giaddr = <<0, 0, 0, 0>>, !.flags = <<128, 0>>,
                                   !.opts = <<53, 1, 1, 255>>]),
     Datagram([TEST_MESSAGE EXCEPT !.giaddr = <<0, 0, 0, 0>>, !.flags = <<127, 255>>]),
     Datagram([TEST_MESSAGE EXCEPT !.flags = <<128, 0>>]),
     Datagram([TEST_MESSAGE EXCEPT !.opts = <<53, 1, 3>>]),
     Zeros(10),
     Datagram([TEST_MESSAGE EXCEPT !.cookie = <<99, 130, 83, 0>>]),
     Prefix(Datagram(TEST_MESSAGE), 10),
     Datagram([TEST_MESSAGE EXCEPT !.sname = <<97, 98>> \o Zeros(62),
                                   !.opts = <<12, 2>>])}

\* what the handler may answer
HandlerReplies ==
    {[BasePacket EXCEPT !.options = OneEntry(DHCPMessageType, <<2>>)],
     [BasePacket EXCEPT !.flags = 32768, !.giaddr = <<10, 0, 0, 1>>,
                        !.options = OneEntry(DHCPMessageType, <<5>>)]}

Event(op, n, ok) == [op |-> op, n |-> n, ok |-> ok]

CodecOff ==
    /\ cpc = {} /\ bytes = <<>> /\ decoded = Err("not run")
    /\ pkt = BasePacket /\ encoded = <<>> /\ mtype = None

Init ==
    /\ pc = "recv"
    /\ workers \in {1, 4}
    /\ buf = Zeros(BufLen)
    /\ size = 0 /\ src = NoAddr /\ datagram = <<>>
    /\ src_packet = None /\ src_broadcast = FALSE /\ src_has_giaddr = FALSE
    /\ reply = None /\ data = <<>> /\ dest = NoAddr
    /\ result = "running"
    /\ trace = <<>> /\ nrecv = 0
    /\ CodecOff
    /\ UnitOff

\* socket.recv_from(&mut buf) returns Ok((size, src))
RecvOk ==
    /\ pc = "recv" /\ nrecv < MaxRecv
    /\ \E d \in Datagrams, a \in Sources :
          /\ buf' = WriteAt(buf, 0, d)
          /\ size' = Len(d)
          /\ src' = a
          /\ datagram' = d
    /\ src_packet' = None /\ src_broadcast' = FALSE /\ src_has_giaddr' = FALSE
    /\ reply' = None /\ data' = <<>> /\ dest' = NoAddr
    /\ nrecv' = nrecv + 1
    /\ trace' = Append(trace, Event("recv", nrecv + 1, TRUE))
    /\ pc' = "decode"
    /\ UNCHANGED <<workers, result>>
    /\ UNCHANGED cvars
    /\ UNCHANGED uvars

\* socket.recv_from(&mut buf) returns Err: the ? returns it
RecvErr ==
    /\ pc = "recv" /\ nrecv < MaxRecv
    /\ size' = 0 /\ src' = NoAddr /\ datagram' = <<>>
    /\ src_packet' = None /\ src_broadcast' = FALSE /\ src_has_giaddr' = FALSE
    /\ reply' = None /\ data' = <<>> /\ dest' = NoAddr
    /\ nrecv' = nrecv + 1
    /\ trace' = Append(trace, Event("recv", nrecv + 1, FALSE))
    /\ result' = "Err(recv_from)"
    /\ pc' = "done"
    /\ UNCHANGED <<workers, buf>>
    /\ UNCHANGED cvars
    /\ UNCHANGED uvars

\* the match on try_from with a plausible slip: the error is returned with ?
\* instead of being logged and skipped
DecodePropagate ==
    /\ pc = "decode"
    /\ LET r == TryFrom(Slice(buf, 0, size))
       IN  IF r.ok
           THEN src_packet' = Some(r.val) /\ pc' = "handle" /\ result' = result
           ELSE src_packet' = None /\ pc' = "done" /\ result' = "Err(decode)"
    /\ UNCHANGED <<workers, buf, size, src, datagram, src_broadcast,
                   src_has_giaddr, reply, data, dest, trace, nrecv>>
    /\ UNCHANGED cvars
    /\ UNCHANGED uvars

\* the match on try_from with a plausible slip: the slice handed to
\* try_from is widened to a whole header when the datagram is shorter
DecodeAtLeastHeader ==
    /\ pc = "decode"
    /\ LET r == TryFrom(Slice(buf, 0, IF size < HeaderLen THEN HeaderLen ELSE size))
       IN  IF r.ok
           THEN src_packet' = Some(r.val) /\ pc' = "handle"
           ELSE src_packet' = None /\ pc' = "recv"
    /\ UNCHANGED <<workers, buf, size, src, datagram, src_broadcast,
                   src_has_giaddr, reply, data, dest, result, trace, nrecv>>
    /\ UNCHANGED cvars
    /\ UNCHANGED uvars

\* match packet::Packet::try_from(&buf[..size])
Decode ==
    /\ pc = "decode"
    /\ LET r == TryFrom(Slice(buf, 0, size))
       IN  IF r.ok
           THEN src_packet' = Some(r.val) /\ pc' = "handle"
           ELSE src_packet' = None /\ pc' = "recv"
    /\ UNCHANGED <<workers, buf, size, src, datagram, src_broadcast,
                   src_has_giaddr, reply, data, dest, result, trace, nrecv>>
    /\ UNCHANGED cvars
    /\ UNCHANGED uvars

\* process_packet up to the send: the two captures, the handler call and
\* the encoding of its reply
Handle ==
    /\ pc = "handle"
    /\ src_broadcast' = broadcast_flag(src_packet.val)
    /\ src_has_giaddr' = ~ipv4_is_unspecified(src_packet.val.giaddr)
    /\ trace' = Append(trace, Event("handle", nrecv, TRUE))
    /\ \/ /\ reply' = None
          /\ data' = <<>>
          /\ pc' = "recv"
       \/ \E p \in HandlerReplies :
             /\ reply' = Some(p)
             /\ \E order \in Orders(p.options) : data' = Into(p, order)
             /\ pc' = "send"
    /\ UNCHANGED <<workers, buf, size, src, datagram, src_packet, dest,
                   result, nrecv>>
    /\ UNCHANGED cvars
    /\ UNCHANGED uvars

\* the destination test with a plausible slip: the relay address is ignored
DestinationIgnoreGiaddr(s, bcast, has_giaddr) ==
    IF is_unspecified(s.ip) \/ bcast
    THEN SocketAddr(BROADCAST, s.port)
    ELSE s

\* the address process_packet sends to
Destination(s, bcast, has_giaddr) ==
    IF ~has_giaddr /\ (is_unspecified(s.ip) \/ bcast)
    THEN SocketAddr(BROADCAST, s.port)
    ELSE s

\* the send with a plausible slip: both branches are taken, one after the
\* other, so that a reply goes out twice
SendOkTwice ==
    /\ pc = "send"
    /\ dest' = Destination(src, src_broadcast, src_has_giaddr)
    /\ trace' = trace \o <<Event("send", nrecv, TRUE), Event("send", nrecv, TRUE)>>
    /\ pc' = "recv"
    /\ UNCHANGED <<workers, buf, size, src, datagram, src_packet, src_broadcast,
                   src_has_giaddr, reply, data, result, nrecv>>
    /\ UNCHANGED cvars
    /\ UNCHANGED uvars

\* socket.send_to(data, destination) returns Ok; process_packet returns Ok(())
SendOk ==
    /\ pc = "send"
    /\ dest' = Destination(src, src_broadcast, src_has_giaddr)
    /\ trace' = Append(trace, Event("send", nrecv, TRUE))
    /\ pc' = "recv"
    /\ UNCHANGED <<workers, buf, size, src, datagram, src_packet, src_broadcast,
                   src_has_giaddr, reply, data, result, nrecv>>
    /\ UNCHANGED cvars
    /\ UNCHANGED uvars

\* the failed send with a plausible slip: the error is dropped and the loop
\* goes on
SendErrIgnored ==
    /\ pc = "send"
    /\ dest' = Destination(src, src_broadcast, src_has_giaddr)
    /\ trace' = Append(trace, Event("send", nrecv, FALSE))
    /\ pc' = "recv"
    /\ UNCHANGED <<workers, buf, size, src, datagram, src_packet, src_broadcast,
                   src_has_giaddr, reply, data, result, nrecv>>
    /\ UNCHANGED cvars
    /\ UNCHANGED uvars

\* socket.send_to returns Err: the ? operators return it from process_packet
\* and from run_server_with_socket
SendErr ==
    /\ pc = "send"
    /\ dest' = Destination(src, src_broadcast, src_has_giaddr)
    /\ trace' = Append(trace, Event("send", nrecv, FALSE))
    /\ result' = "Err(send_to)"
    /\ pc' = "done"
    /\ UNCHANGED <<workers, buf, size, src, datagram, src_packet, src_broadcast,
                   src_has_giaddr, reply, data, nrecv>>
    /\ UNCHANGED cvars
    /\ UNCHANGED uvars

Next == RecvOk \/ RecvErr \/ Decode \/ Handle \/ SendOk \/ SendErr

Spec == Init /\ [][Next]_vars

----------------------------------------------------------------------------
(* Properties of the dispatcher *)

Last(t) == t[Len(t)]

\* the calls of kind op made for the n-th datagram
Calls(op, n) == {i \in 1..Len(trace) : trace[i].op = op /\ trace[i].n = n}

\* a datagram was received and its decode has been carried out
Decoded == datagram # <<>> /\ pc # "decode"

\* the request as it arrived on the wire
C1_ReqBroadcast == datagram[11] >= 128

C1_ReqNoGiaddr == SubSeq(datagram, 25, 28) = <<0, 0, 0, 0>>

C1_SrcUnspecified == \A i \in 1..Len(src.ip.octets) : src.ip.octets[i] = 0

\* C1: a reply is sent to 255.255.255.255 with the request's source port
\* if the request's giaddr is unspecified and (the source IP is unspecified
\* or the request's broadcast flag is set), and to the datagram's source
\* address unchanged in every other case; the reply's own flags and giaddr
\* play no part.
C1_ReplyDestination ==
    (trace # <<>> /\ Last(trace).op = "send") =>
        dest = IF C1_ReqNoGiaddr /\ (C1_SrcUnspecified \/ C1_ReqBroadcast)
               THEN [ip |-> [fam |-> "V4", octets |-> <<255, 255, 255, 255>>],
                     port |-> src.port]
               ELSE src

C1_Witness ==
    /\ trace # <<>> /\ Last(trace).op = "send"
    /\ ~C1_ReqNoGiaddr /\ C1_ReqBroadcast /\ C1_SrcUnspecified
    /\ reply.val.giaddr = <<0, 0, 0, 0>> /\ reply.val.flags = 0
    /\ dest = src

\* C2: a datagram that fails decode causes no handler call and no send and
\* does not end the loop, which goes on to the next receive; a valid
\* datagram, after any number of malformed ones, is decoded, handed to the
\* handler and, if the handler replies, answered.
C2_MalformedDropped ==
    /\ (Decoded /\ ~TryFrom(datagram).ok) =>
          /\ pc = "recv" /\ result = "running"
          /\ Last(trace) = Event("recv", nrecv, TRUE)
          /\ nrecv < MaxRecv => ENABLED RecvOk
    /\ (Decoded /\ TryFrom(datagram).ok) =>
          /\ src_packet = [some |-> TRUE, val |-> TryFrom(datagram).val]
          /\ pc # "handle" => Calls("handle", nrecv) # {}
          /\ (pc \in {"recv", "done"} /\ reply.some) => Calls("send", nrecv) # {}

C2_Witness ==
    /\ nrecv = 3
    /\ trace = <<Event("recv", 1, TRUE), Event("recv", 2, TRUE),
                 Event("recv", 3, TRUE), Event("handle", 3, TRUE),
                 Event("send", 3, TRUE)>>
    /\ pc = "recv" /\ result = "running"

\* C3: the first failed receive or send ends the loop with that error: no
\* call on the transport or the handler follows it and it is not retried;
\* the loop ends in no other way.
C3_TransportFailureFatal ==
    /\ \A i \in 1..(Len(trace) - 1) : trace[i].ok
    /\ (trace # <<>> /\ ~Last(trace).ok) =>
          /\ pc = "done"
          /\ result = IF Last(trace).op = "recv" THEN "Err(recv_from)"
                      ELSE "Err(send_to)"
          /\ ~ENABLED Next
    /\ pc = "done" =>
          /\ trace # <<>> /\ ~Last(trace).ok
          /\ Last(trace).op \in {"recv", "send"}
    /\ result # "running" <=> pc = "done"

C3_Witness ==
    /\ pc = "done" /\ result = "Err(send_to)"
    /\ trace = <<Event("recv", 1, TRUE), Event("handle", 1, TRUE),
                 Event("send", 1, TRUE), Event("recv", 2, TRUE),
                 Event("handle", 2, TRUE), Event("send", 2, FALSE)>>

\* C4: datagrams are processed one at a time: after the n-th receive there
\* is at most one handler call (one iff the datagram decoded) and at most
\* one send (one iff the handler replied), the send before the next
\* receive; sends are in the order of the receives they answer; the worker
\* count changes nothing.
C4_OneAtATime ==
    /\ \A i \in 1..Len(trace) :
          CASE trace[i].op = "recv" ->
                  trace[i].n = 1 + Cardinality({j \in 1..(i - 1) : trace[j].op = "recv"})
            [] trace[i].op = "handle" ->
                  i > 1 /\ trace[i - 1] = Event("recv", trace[i].n, TRUE)
            [] trace[i].op = "send" ->
                  i > 1 /\ trace[i - 1] = Event("handle", trace[i].n, TRUE)
    /\ \A i, j \in 1..Len(trace) :
          (i < j /\ trace[i].op = "send" /\ trace[j].op = "send")
              => trace[i].n < trace[j].n
    /\ (Decoded /\ pc \in {"recv", "done"}) =>
          /\ Cardinality(Calls("handle", nrecv)) = IF TryFrom(datagram).ok THEN 1 ELSE 0
          /\ Cardinality(Calls("send", nrecv)) = IF reply.some THEN 1 ELSE 0

C4_Witness ==
    /\ workers = 4
    /\ trace = <<Event("recv", 1, TRUE), Event("handle", 1, TRUE),
                 Event("send", 1, TRUE), Event("recv", 2, TRUE),
                 Event("recv", 3, TRUE), Event("handle", 3, TRUE),
                 Event("send", 3, TRUE)>>

----------------------------------------------------------------------------
(* Properties of the codec *)

HasCookie(b) == <<b[237], b[238], b[239], b[240]>> = <<99, 130, 83, 99>>

C5_Accepts(b) ==
    /\ Len(b) >= 240
    /\ HasCookie(b)
    /\ b[3] = 6
    /\ b[1] \in {1, 2}
    /\ b[2] = 1

C5_FirstFailure(b) ==
    IF Len(b) < 240 THEN "PacketTooSmall"
    ELSE IF ~HasCookie(b) THEN "InvalidCookie"
    ELSE IF b[3] # 6 THEN "UnsupportedHardwareLength"
    ELSE IF b[1] \notin {1, 2} THEN "InvalidOpCode"
    ELSE "InvalidHardwareType"

\* the spec's name of each error message of the code
ErrorKind(msg) ==
    CASE msg = "packet too small" -> "PacketTooSmall"
      [] msg = "DHCP cookie invalid" -> "InvalidCookie"
      [] msg = "hardware addresses must be 6 bytes" -> "UnsupportedHardwareLength"
      [] msg = "opcode out of range" -> "InvalidOpCode"
      [] msg = "hardware type out of range" -> "InvalidHardwareType"
      [] OTHER -> "other"

\* C5: decode succeeds iff length >= 240, the cookie is 99,130,83,99,
\* byte 2 is 6, byte 0 is 1 or 2 and byte 1 is 1; otherwise it reports the
\* first failing check in the order length, cookie, hardware length,
\* opcode, hardware type.
C5_DecodeChecks ==
    ("dec" \in cpc) =>
        /\ decoded.ok <=> C5_Accepts(bytes)
        /\ ~decoded.ok => ErrorKind(decoded.err) = C5_FirstFailure(bytes)

C5_Witness ==
    /\ "dec" \in cpc
    /\ Len(bytes) = 240
    /\ ~HasCookie(bytes) /\ bytes[3] # 6 /\ bytes[1] = 0 /\ bytes[2] = 0
    /\ ~decoded.ok /\ decoded.err = "DHCP cookie invalid"

OptionRegion(b) == SubSeq(b, 241, Len(b))

\* The claim's scan, by position i (zero based) in the option region t.
RECURSIVE C6_Scan(_, _, _)
C6_Scan(t, i, m) ==
    IF Len(t) - i < 2 THEN m
    ELSE IF t[i + 1] \notin OptionCodes THEN m
    ELSE IF t[i + 1] = 255 THEN m
    ELSE IF t[i + 1] = 0 THEN C6_Scan(t, i + 1, m)
    ELSE IF t[i + 2] > Len(t) - i - 2 THEN m
    ELSE C6_Scan(t, i + 2 + t[i + 2],
                 [c \in (DOMAIN m) \cup {t[i + 1]} |->
                     IF c = t[i + 1] THEN SubSeq(t, i + 3, i + 2 + t[i + 2])
                     ELSE m[c]])

\* C6: the decoded options are exactly the options before the first
\* stopping point (fewer than 2 bytes left, unrecognized code, End, or a
\* length exceeding what remains); Pad is skipped and never stored, a
\* zero length gives an empty payload, a repeated code keeps its last payload.
C6_OptionScan ==
    ("dec" \in cpc /\ decoded.ok) =>
        /\ decoded.val.options = C6_Scan(OptionRegion(bytes), 0, EmptyMap)
        /\ 0 \notin DOMAIN decoded.val.options
        /\ 255 \notin DOMAIN decoded.val.options

C6_Witness ==
    /\ "dec" \in cpc /\ decoded.ok
    /\ OptionRegion(bytes) = <<1, 0, 1, 1, 2>>
    /\ DOMAIN decoded.val.options = {1}
    /\ decoded.val.options[1] = <<2>>

\* the fields of a decoded packet other than its options
C14_Fixed(p) ==
    <<p.opcode, p.htype, p.hlen, p.hops, p.xid, p.secs, p.flags, p.ciaddr,
      p.yiaddr, p.siaddr, p.giaddr, p.chaddr, p.sname, p.file, p.cookie>>

\* the entry code |-> value stands in the option region t as a code byte,
\* a length byte and the value
C14_Stands(t, code, value) ==
    \E i \in 1..(Len(t) - 1) :
        /\ t[i] = code
        /\ t[i + 1] = Len(value)
        /\ i + 1 + Len(value) <= Len(t)
        /\ SubSeq(t, i + 2, i + 1 + Len(value)) = value

\* C14: the bytes after offset 240 never make decode fail. The input and
\* its first 240 bytes (hence any two inputs that agree on their first 240
\* bytes) either both decode or both fail with the same error, the fixed
\* fields decoded are the same, and every entry of the decoded mapping
\* stands in the option region: malformed option bytes only leave
\* entries out.
C14_OptionRegionNeverFails ==
    ("dec" \in cpc) =>
        LET head == TryFrom(Prefix(bytes, 240))
        IN  /\ decoded.ok <=> head.ok
            /\ ~decoded.ok => decoded.err = head.err
            /\ decoded.ok =>
                  /\ C14_Fixed(decoded.val) = C14_Fixed(head.val)
                  /\ head.val.options = EmptyMap
                  /\ \A c \in DOMAIN decoded.val.options :
                        C14_Stands(OptionRegion(bytes), c, decoded.val.options[c])

C14_Witness ==
    /\ "dec" \in cpc /\ decoded.ok
    /\ OptionRegion(bytes) = <<53, 1, 1, 12, 200, 1>>
    /\ DOMAIN decoded.val.options = {53}
    /\ decoded.val.options[53] = <<1>>
    /\ decoded.val.sname = TryFrom(Prefix(bytes, 240)).val.sname
    /\ Len(decoded.val.sname) = 63

\* zero based offset of the first NUL in b[lo..hi), hi if there is none
FirstNul(b, lo, hi) ==
    LET nul == {o \in lo..(hi - 1) : b[o + 1] = 0}
    IN  IF nul = {} THEN hi ELSE CHOOSE o \in nul : \A q \in nul : o <= q

\* the option region is empty or exactly one complete option with a
\* recognized code other than Pad and End
ZeroOrOneOption(t) ==
    \/ t = <<>>
    \/ /\ Len(t) >= 2
       /\ t[1] \in OptionCodes \ {0, 255}
       /\ t[2] = Len(t) - 2

C7_Pre(b) == C5_Accepts(b) /\ ZeroOrOneOption(OptionRegion(b))

\* the bytes of d from zero based offset lo up to the first NUL before hi
C15_Text(d, lo, hi) == SubSeq(d, lo + 1, FirstNul(d, lo, hi))

\* C15: the Packet handed to the handler for the n-th datagram is made of
\* that datagram's bytes only (the first size bytes the receive returned),
\* whatever an earlier, longer datagram left in the reused buffer: each
\* fixed field, sname, file and the options are those read from the
\* datagram, and a datagram shorter than 240 bytes is dropped without a
\* handler call even when the buffer still holds a valid header.
C15_PacketFromDatagramOnly ==
    Decoded =>
        /\ size = Len(datagram)
        /\ Len(datagram) < 240 =>
              /\ src_packet = None /\ pc = "recv"
              /\ Calls("handle", nrecv) = {}
        /\ src_packet.some =>
              LET p == src_packet.val
                  d == datagram
              IN  /\ Len(d) >= 240
                  /\ p.opcode = IF d[1] = 1 THEN "BootRequest" ELSE "BootReply"
                  /\ p.hlen = d[3] /\ p.hops = d[4]
                  /\ p.xid = [hi |-> d[5] * 256 + d[6], lo |-> d[7] * 256 + d[8]]
                  /\ p.secs = d[9] * 256 + d[10]
                  /\ p.flags = d[11] * 256 + d[12]
                  /\ p.ciaddr = SubSeq(d, 13, 16) /\ p.yiaddr = SubSeq(d, 17, 20)
                  /\ p.siaddr = SubSeq(d, 21, 24) /\ p.giaddr = SubSeq(d, 25, 28)
                  /\ p.chaddr = SubSeq(d, 29, 34)
                  /\ p.sname = C15_Text(d, 44, 108)
                  /\ p.file = C15_Text(d, 108, 236)
                  /\ p.cookie = SubSeq(d, 237, 240)
                  /\ p.options = C6_Scan(OptionRegion(d), 0, EmptyMap)

C15_Witness ==
    /\ Decoded /\ nrecv >= 2
    /\ OptionRegion(datagram) = <<12, 2>>
    /\ SubSeq(buf, 241, 244) = <<12, 2, 1, 255>>
    /\ src_packet.some
    /\ src_packet.val.options = EmptyMap
    /\ src_packet.val.sname = <<97, 98>>
    /\ Calls("handle", nrecv) # {}

C7_RoundTrip(b, e, zeroed) ==
    LET sn == FirstNul(b, 44, 108)
        fn == FirstNul(b, 108, 236)
    IN  /\ Len(e) = Len(b)
        /\ \A off \in 0..(Len(b) - 1) :
              e[off + 1] =
                 IF off \in zeroed THEN 0
                 ELSE IF off \in 44..107 /\ off >= sn THEN 0
                 ELSE IF off \in 108..235 /\ off >= fn THEN 0
                 ELSE b[off + 1]

\* C7 as stated: encode(decode(bytes)) equals bytes except that offsets 3
\* and 8-9 are zero and sname/file are zero from their first NUL on; every
\* other byte, offsets 28-43 included, equals the input byte.
C7_Original ==
    ("enc" \in cpc /\ C7_Pre(bytes)) => C7_RoundTrip(bytes, encoded, {3, 8, 9})

\* C7 amended: as C7, except that the ten bytes after the 6 hardware
\* address octets (offsets 34-43) are zero in the output too.
C7_RoundTripAmended ==
    ("enc" \in cpc /\ C7_Pre(bytes)) =>
        C7_RoundTrip(bytes, encoded, {3, 8, 9} \cup (34..43))

C7_Witness ==
    /\ "enc" \in cpc /\ C7_Pre(bytes)
    /\ bytes[4] # 0 /\ bytes[10] # 0
    /\ bytes[35] # 0
    /\ bytes[47] = 0 /\ bytes[48] # 0
    /\ Len(bytes) > 240
    /\ encoded[35] = 0 /\ encoded[48] = 0 /\ encoded[29] = bytes[29]

\* the claim's reading of a Packet field as wire bytes
C8_OpByte(p) == CASE p.opcode = "BootRequest" -> 1 [] p.opcode = "BootReply" -> 2

C8_Window(e, off, field, width) ==
    \A i \in 0..(width - 1) :
        e[off + i + 1] = IF i < Len(field) THEN field[i + 1] ELSE 0

\* C8: encode writes zero at offsets 3 and 8-9 and the magic cookie at
\* 236-239 whatever the packet holds; opcode, htype, hlen, xid, flags, the
\* four addresses and the 6 chaddr octets verbatim, big-endian, at their
\* offsets; the first 64 bytes of sname at 44 and the first 128 bytes of
\* file at 108, the rest of each window zero, nothing outside the window.
C8_EncodeHeader ==
    ("enc" \in cpc /\ bytes = <<>>) =>
        /\ Len(encoded) >= 240
        /\ encoded[4] = 0 /\ encoded[9] = 0 /\ encoded[10] = 0
        /\ SubSeq(encoded, 237, 240) = <<99, 130, 83, 99>>
        /\ encoded[1] = C8_OpByte(pkt)
        /\ encoded[2] = 1
        /\ encoded[3] = pkt.hlen
        /\ encoded[5] * 256 + encoded[6] = pkt.xid.hi
        /\ encoded[7] * 256 + encoded[8] = pkt.xid.lo
        /\ encoded[11] * 256 + encoded[12] = pkt.flags
        /\ SubSeq(encoded, 13, 16) = pkt.ciaddr
        /\ SubSeq(encoded, 17, 20) = pkt.yiaddr
        /\ SubSeq(encoded, 21, 24) = pkt.siaddr
        /\ SubSeq(encoded, 25, 28) = pkt.giaddr
        /\ SubSeq(encoded, 29, 34) = pkt.chaddr
        /\ C8_Window(encoded, 44, pkt.sname, 64)
        /\ C8_Window(encoded, 108, pkt.file, 128)

C8_Witness ==
    /\ "enc" \in cpc /\ bytes = <<>>
    /\ pkt.hops # 0 /\ pkt.secs # 0 /\ pkt.cookie # <<99, 130, 83, 99>>
    /\ Len(pkt.sname) > 64 /\ Len(pkt.file) = 0
    /\ encoded[108] = pkt.sname[64] /\ encoded[109] = 0

RECURSIVE C9_Region(_, _)
C9_Region(m, order) ==
    IF order = <<>> THEN <<>>
    ELSE <<Head(order), Len(m[Head(order)])>> \o m[Head(order)]
            \o C9_Region(m, Tail(order))

RECURSIVE C9_Sum(_, _)
C9_Sum(m, keys) ==
    IF keys = {} THEN 0
    ELSE LET k == CHOOSE k \in keys : TRUE
         IN  2 + Len(m[k]) + C9_Sum(m, keys \ {k})

\* C9: after the 240-byte header encode emits, for every entry and nothing
\* else, the code, a length byte equal to the number of bytes of the value,
\* and the value; the output is 240 + sum of (2 + value length) bytes long,
\* for values of any length.
C9_OptionEncoding ==
    ("enc" \in cpc /\ bytes = <<>>) =>
        /\ Len(encoded) = 240 + C9_Sum(pkt.options, DOMAIN pkt.options)
        /\ \E order \in Orders(pkt.options) :
              SubSeq(encoded, 241, Len(encoded)) = C9_Region(pkt.options, order)

C10_Symbol(b) ==
    CASE b = 1 -> "Discover" [] b = 2 -> "Offer" [] b = 3 -> "Request"
      [] b = 4 -> "Decline" [] b = 5 -> "ACK" [] b = 6 -> "NAK"
      [] b = 7 -> "Release" [] b = 8 -> "Inform"

\* C10: message_type() is the matching symbol when the DHCPMessageType
\* entry's first payload byte is in 1..8, whatever follows it, and absent
\* when the entry is missing, empty, or starts with 0 or a byte >= 9; it is
\* never the Unknown symbol.
C10_MessageType ==
    ("mt" \in cpc) =>
        /\ IF /\ 53 \in DOMAIN pkt.options
              /\ Len(pkt.options[53]) > 0
              /\ pkt.options[53][1] \in 1..8
           THEN mtype = [some |-> TRUE, val |-> C10_Symbol(pkt.options[53][1])]
           ELSE mtype = [some |-> FALSE]
        /\ mtype # [some |-> TRUE, val |-> "Unknown"]

C10_Witness ==
    /\ "mt" \in cpc
    /\ 53 \in DOMAIN pkt.options
    /\ pkt.options[53] = <<9, 7>>
    /\ mtype = [some |-> FALSE]

\* the packets C16 is about
C16_WellFormed(p) ==
    /\ p.hlen = 6 /\ p.hops = 0 /\ p.secs = 0
    /\ p.cookie = <<99, 130, 83, 99>>
    /\ Len(p.sname) <= 64 /\ \A i \in 1..Len(p.sname) : p.sname[i] # 0
    /\ Len(p.file) <= 128 /\ \A i \in 1..Len(p.file) : p.file[i] # 0
    /\ 0 \notin DOMAIN p.options /\ 255 \notin DOMAIN p.options
    /\ \A c \in DOMAIN p.options : Len(p.options[c]) <= 255

\* C16: decode is a left inverse of encode on well-formed packets (hlen 6,
\* hops 0, secs 0, the magic cookie, sname of at most 64 and file of at
\* most 128 bytes without a zero byte, option keys other than Pad and End,
\* option values of at most 255 bytes): decoding the encoding succeeds and
\* gives the packet back, in whichever order encode iterated the options.
C16_DecodeInvertsEncode ==
    ("redec" \in cpc /\ C16_WellFormed(pkt)) =>
        /\ decoded.ok
        /\ decoded.val = pkt

C16_Witness ==
    /\ "redec" \in cpc /\ C16_WellFormed(pkt)
    /\ DOMAIN pkt.options = {1, 51, 53}
    /\ Len(pkt.sname) = 64 /\ Len(pkt.file) = 128
    /\ pkt.flags = 32769
    /\ <<encoded[241], encoded[247], encoded[250]>> = <<51, 53, 1>>
    /\ decoded = [ok |-> TRUE, val |-> pkt]

----------------------------------------------------------------------------
(* The symbol catalogs exercised on their own: each try_from on one byte *)

InitCatalog ==
    /\ DispatcherOff
    /\ CodecOff
    /\ cbyte \in 0..255
    /\ catalog = NotRun
    /\ bcast_arg = None /\ bflag = None
    /\ hw_text = <<>> /\ hw_addr = None /\ hw_shown = None /\ hw_bcast = None

CatalogFrame ==
    /\ UNCHANGED <<cbyte, bcast_arg, bflag, hw_text, hw_addr, hw_shown, hw_bcast>>
    /\ UNCHANGED dvars
    /\ UNCHANGED cvars

\* MessageType::try_from(cbyte)
MessageTypeTryFromStep ==
    /\ ~catalog.mt.some
    /\ catalog' = [catalog EXCEPT !.mt = Some(MessageTypeTryFrom(cbyte))]
    /\ CatalogFrame

\* OpCode::try_from(cbyte)
OpCodeTryFromStep ==
    /\ ~catalog.op.some
    /\ catalog' = [catalog EXCEPT !.op = Some(OpCodeTryFrom(cbyte))]
    /\ CatalogFrame

\* HardwareType::try_from(cbyte)
HardwareTypeTryFromStep ==
    /\ ~catalog.ht.some
    /\ catalog' = [catalog EXCEPT !.ht = Some(HardwareTypeTryFrom(cbyte))]
    /\ CatalogFrame

\* OptionCode::try_from(cbyte)
OptionCodeTryFromStep ==
    /\ ~catalog.oc.some
    /\ catalog' = [catalog EXCEPT !.oc = Some(OptionCodeTryFrom(cbyte))]
    /\ CatalogFrame

NextCatalog ==
    \/ MessageTypeTryFromStep
    \/ OpCodeTryFromStep
    \/ HardwareTypeTryFromStep
    \/ OptionCodeTryFromStep

SpecCatalog == InitCatalog /\ [][NextCatalog]_vars

\* the other three catalogs fail on every byte outside their closed sets
C11_ClosedCatalogs ==
    /\ catalog.op.some =>
          /\ catalog.op.val.ok <=> cbyte \in {1, 2}
          /\ catalog.op.val.ok =>
                catalog.op.val.val = IF cbyte = 1 THEN "BootRequest" ELSE "BootReply"
    /\ catalog.ht.some =>
          /\ catalog.ht.val.ok <=> cbyte = 1
          /\ catalog.ht.val.ok => catalog.ht.val.val = "Ethernet"
    /\ catalog.oc.some =>
          /\ catalog.oc.val.ok <=> cbyte \in OptionCodes
          /\ catalog.oc.val.ok => catalog.oc.val.val = cbyte

----------------------------------------------------------------------------
(* The flag accessors exercised on their own: any sequence of              *)
(* set_broadcast and broadcast_flag calls on one Packet                    *)

FlagPackets ==
    {[BasePacket EXCEPT !.flags = f] : f \in 0..(U16 - 1)}
    \cup {[DirtyPacket EXCEPT !.flags = f] : f \in {0, 1, 32767, 32768, 65535}}

InitFlags ==
    /\ DispatcherOff
    /\ cpc = {} /\ bytes = <<>> /\ decoded = Err("not run")
    /\ pkt \in FlagPackets
    /\ encoded = <<>> /\ mtype = None
    /\ cbyte = 0 /\ catalog = NotRun
    /\ bcast_arg = None /\ bflag = None
    /\ hw_text = <<>> /\ hw_addr = None /\ hw_shown = None /\ hw_bcast = None

FlagsFrame ==
    /\ UNCHANGED <<cpc, bytes, decoded, encoded, mtype>>
    /\ UNCHANGED <<cbyte, catalog, hw_text, hw_addr, hw_shown, hw_bcast>>
    /\ UNCHANGED dvars

\* pkt.set_broadcast(b)
SetBroadcastStep ==
    /\ \E b \in BOOLEAN :
          /\ pkt' = set_broadcast(pkt, b)
          /\ bcast_arg' = Some(b)
    /\ bflag' = None
    /\ FlagsFrame

\* pkt.broadcast_flag()
BroadcastFlagStep ==
    /\ bflag' = Some(broadcast_flag(pkt))
    /\ UNCHANGED <<pkt, bcast_arg>>
    /\ FlagsFrame

NextFlags == SetBroadcastStep \/ BroadcastFlagStep

SpecFlags == InitFlags /\ [][NextFlags]_vars

\* C12: broadcast_flag() is true iff flags >= 0x8000; set_broadcast(b)
\* overwrites flags with exactly 0x8000 or 0x0000, clears every other flag
\* bit and leaves the other fields alone, so that after any sequence of
\* set_broadcast calls broadcast_flag() equals the last argument.
C12_BroadcastFlag ==
    /\ [](bflag.some => (bflag.val <=> pkt.flags >= 32768))
    /\ [](bcast_arg.some => pkt.flags = IF bcast_arg.val THEN 32768 ELSE 0)
    /\ []((bflag.some /\ bcast_arg.some) => bflag.val = bcast_arg.val)
    /\ [][pkt' = [pkt EXCEPT !.flags = pkt'.flags]]_vars

C12_Witness ==
    /\ pkt = [DirtyPacket EXCEPT !.flags = 32768]
    /\ bcast_arg = [some |-> TRUE, val |-> TRUE]
    /\ bflag = [some |-> TRUE, val |-> TRUE]

----------------------------------------------------------------------------
(* HardwareAddr: from_str, Display and is_broadcast.                       *)
(* A string is a sequence of one-character strings.                        *)

HwLen == 6

\* longest list of arbitrary segments enumerated
MaxSegs == 2

DecDigits == <<"0", "1", "2", "3", "4", "5", "6", "7", "8", "9">>

UpperHex == DecDigits \o <<"A", "B", "C", "D", "E", "F">>

LowerHex == DecDigits \o <<"a", "b", "c", "d", "e", "f">>

\* char::to_digit(radix)
to_digit(c, radix) ==
    LET up == {i \in 1..16 : UpperHex[i] = c}
        lo == {i \in 1..16 : LowerHex[i] = c}
        v == IF up # {} THEN (CHOOSE i \in up : TRUE) - 1
             ELSE IF lo # {} THEN (CHOOSE i \in lo : TRUE) - 1
             ELSE 36
    IN  IF v < radix THEN Some(v) ELSE None

RECURSIVE RadixLoop(_, _, _)
RadixLoop(digits, radix, acc) ==
    IF digits = <<>> THEN Ok(acc)
    ELSE LET x == to_digit(Head(digits), radix)
         IN  IF ~x.some THEN Err("InvalidDigit")
             ELSE IF acc * radix + x.val >= U8 THEN Err("PosOverflow")
             ELSE RadixLoop(Tail(digits), radix, acc * radix + x.val)

\* u8::from_str_radix of the standard library
from_str_radix(str, radix) ==
    IF str = <<>> THEN Err("Empty")
    ELSE IF Len(str) = 1 /\ str[1] \in {"+", "-"} THEN Err("InvalidDigit")
    ELSE RadixLoop(IF str[1] = "+" THEN Tail(str) ELSE str, radix, 0)

\* value.split(|c| c == ':' || c == '-')
RECURSIVE SplitScan(_, _, _, _)
SplitScan(t, i, cur, acc) ==
    IF i > Len(t) THEN Append(acc, cur)
    ELSE IF t[i] = ":" \/ t[i] = "-"
         THEN SplitScan(t, i + 1, <<>>, Append(acc, cur))
         ELSE SplitScan(t, i + 1, Append(cur, t[i]), acc)

Split(t) == SplitScan(t, 1, <<>>, <<>>)

\* the for loop of from_str; i is the zero based index of enumerate(),
\* last the greatest index that is stored
RECURSIVE FromStrLoop(_, _, _, _)
FromStrLoop(segs, i, res, last) ==
    IF i >= Len(segs) THEN Ok(res)
    ELSE IF i > last /\ ~from_str_radix(<<"e", "r", "r", "o", "r">>, 10).ok
         THEN from_str_radix(<<"e", "r", "r", "o", "r">>, 10)
    ELSE LET r == from_str_radix(segs[i + 1], 16)
         IN  IF ~r.ok THEN r
             ELSE FromStrLoop(segs, i + 1, [res EXCEPT ![i + 1] = r.val], last)

\* from_str with a plausible slip: the guard is i >= 5, so that a sixth
\* segment is refused
from_str_five(value) == FromStrLoop(Split(value), 0, Zeros(HwLen), 4)

\* impl FromStr for HardwareAddr
from_str(value) == FromStrLoop(Split(value), 0, Zeros(HwLen), 5)

\* {:02X}
Hex02(n) == <<UpperHex[(n \div 16) + 1], UpperHex[(n % 16) + 1]>>

\* impl fmt::Display for HardwareAddr
fmt(a) ==
    Hex02(a[1]) \o <<":">> \o Hex02(a[2]) \o <<":">> \o Hex02(a[3]) \o <<":">>
        \o Hex02(a[4]) \o <<":">> \o Hex02(a[5]) \o <<":">> \o Hex02(a[6])

is_broadcast(a) == a = <<255, 255, 255, 255, 255, 255>>

\* ---- inputs ----

AnySegments ==
    {<<>>, <<"A">>, <<"F", "F">>, <<"f", "f">>, <<"0", "A">>, <<"0", "F", "F">>,
     <<"1", "0", "0">>, <<"G", "1">>, <<"+", "F">>, <<"+">>}

OctetSegments == {<<"0", "0">>, <<"F", "F">>, <<"2", "A">>}

RECURSIVE Join(_, _)
Join(segs, seps) ==
    IF Len(segs) = 1 THEN segs[1]
    ELSE segs[1] \o <<seps[1]>> \o Join(Tail(segs), Tail(seps))

\* up to MaxSegs arbitrary segments with any separators
ShortTexts ==
    UNION {{Join(sg, sp) : sg \in [1..k -> AnySegments],
                           sp \in [1..(k - 1) -> {":", "-"}]} : k \in 1..MaxSegs}

\* five, six and seven two-digit octets with one separator throughout
LongTexts ==
    UNION {{Join(sg, [i \in 1..(k - 1) |-> sp]) : sg \in [1..k -> OctetSegments],
                                                   sp \in {":", "-"}} :
            k \in (HwLen - 1)..(HwLen + 1)}

\* the examples of the doc comments
DocTexts ==
    {<<"0", "0", "-", "1", "4", "-", "2", "2", "-", "0", "1", "-", "2", "3", "-", "4", "5">>,
     <<"A", "A", ":", "B", "B", ":", "C", "C", ":", "D", "D", ":", "E", "E", ":", "F", "F">>}

HwTexts == ShortTexts \cup LongTexts \cup DocTexts

InitHw ==
    /\ DispatcherOff
    /\ CodecOff
    /\ cbyte = 0 /\ catalog = NotRun
    /\ bcast_arg = None /\ bflag = None
    /\ hw_text \in HwTexts
    /\ hw_addr = None /\ hw_shown = None /\ hw_bcast = None

HwFrame ==
    /\ UNCHANGED <<cbyte, catalog, bcast_arg, bflag, hw_text>>
    /\ UNCHANGED dvars
    /\ UNCHANGED cvars

\* hw_text.parse::<HardwareAddr>()
FromStrStep ==
    /\ ~hw_addr.some
    /\ hw_addr' = Some(from_str(hw_text))
    /\ UNCHANGED <<hw_shown, hw_bcast>>
    /\ HwFrame

\* format!("{}", addr)
DisplayStep ==
    /\ hw_addr.some /\ hw_addr.val.ok /\ ~hw_shown.some
    /\ hw_shown' = Some(fmt(hw_addr.val.val))
    /\ UNCHANGED <<hw_addr, hw_bcast>>
    /\ HwFrame

\* addr.is_broadcast()
IsBroadcastStep ==
    /\ hw_addr.some /\ hw_addr.val.ok /\ ~hw_bcast.some
    /\ hw_bcast' = Some(is_broadcast(hw_addr.val.val))
    /\ UNCHANGED <<hw_addr, hw_shown>>
    /\ HwFrame

NextHw == FromStrStep \/ DisplayStep \/ IsBroadcastStep

SpecHw == InitHw /\ [][NextHw]_vars

\* ---- properties ----

C13_SepAt(t) == {i \in 1..Len(t) : t[i] \in {":", "-"}}

\* position of the j-th separator of t; 0 for j = 0, Len(t) + 1 past the last
C13_Cut(t, j) ==
    IF j = 0 THEN 0
    ELSE IF j > Cardinality(C13_SepAt(t)) THEN Len(t) + 1
    ELSE CHOOSE i \in C13_SepAt(t) :
            Cardinality({q \in C13_SepAt(t) : q < i}) = j - 1

C13_Count(t) == Cardinality(C13_SepAt(t)) + 1

\* the j-th segment of t, j in 1..C13_Count(t)
C13_Seg(t, j) == SubSeq(t, C13_Cut(t, j - 1) + 1, C13_Cut(t, j) - 1)

C13_HexChars ==
    {"0", "1", "2", "3", "4", "5", "6", "7", "8", "9",
     "A", "B", "C", "D", "E", "F", "a", "b", "c", "d", "e", "f"}

C13_HexVal(c) ==
    CASE c = "0" -> 0 [] c = "1" -> 1 [] c = "2" -> 2 [] c = "3" -> 3
      [] c = "4" -> 4 [] c = "5" -> 5 [] c = "6" -> 6 [] c = "7" -> 7
      [] c = "8" -> 8 [] c = "9" -> 9
      [] c \in {"A", "a"} -> 10 [] c \in {"B", "b"} -> 11
      [] c \in {"C", "c"} -> 12 [] c \in {"D", "d"} -> 13
      [] c \in {"E", "e"} -> 14 [] c \in {"F", "f"} -> 15

\* value of a string of hex digits, most significant first
C13_Value(d) ==
    LET pow[k \in 0..Len(d)] == IF k = 0 THEN 1 ELSE 16 * pow[k - 1]
        sum[k \in 0..Len(d)] ==
            IF k = 0 THEN 0
            ELSE sum[k - 1] + C13_HexVal(d[k]) * pow[Len(d) - k]
    IN  sum[Len(d)]

C13_TwoDigit(seg) == Len(seg) = 2 /\ \A i \in 1..2 : seg[i] \in C13_HexChars

C13_Digits(seg) == IF seg # <<>> /\ seg[1] = "+" THEN Tail(seg) ELSE seg

\* what u8::from_str_radix(seg, 16) accepts: an optional + sign, then one
\* or more hex digits of either case whose value fits a byte
C13_HexByte(seg) ==
    /\ C13_Digits(seg) # <<>>
    /\ \A i \in 1..Len(C13_Digits(seg)) : C13_Digits(seg)[i] \in C13_HexChars
    /\ C13_Value(C13_Digits(seg)) <= 255

\* uppercase, colon separated, six two-digit octets
C13_Canonical(t) ==
    /\ Len(t) = 17
    /\ \A i \in 1..17 :
          IF i % 3 = 0 THEN t[i] = ":"
          ELSE t[i] \in {"0", "1", "2", "3", "4", "5", "6", "7", "8", "9",
                         "A", "B", "C", "D", "E", "F"}

C13_Octets(t) ==
    [i \in 1..6 |-> IF i <= C13_Count(t) THEN C13_Value(C13_Digits(C13_Seg(t, i)))
                    ELSE 0]

C13_ShowAndBroadcast ==
    /\ (hw_shown.some /\ C13_Canonical(hw_text)) => hw_shown.val = hw_text
    /\ hw_bcast.some =>
          (hw_bcast.val <=> \A i \in 1..6 : hw_addr.val.val[i] = 255)

\* C13 as stated: every segment must be a 2-digit hexadecimal number: the
\* parse fails if a segment is not one or if there are more than 6 segments
\* and succeeds otherwise, octet i being segment i and the rest zero;
\* formatting a parsed uppercase colon-separated 6-octet string gives the
\* string back; is_broadcast iff all six octets are 0xFF.
C13_Original ==
    /\ hw_addr.some =>
          /\ hw_addr.val.ok <=>
                /\ C13_Count(hw_text) <= 6
                /\ \A j \in 1..C13_Count(hw_text) : C13_TwoDigit(C13_Seg(hw_text, j))
          /\ hw_addr.val.ok => hw_addr.val.val = C13_Octets(hw_text)
    /\ C13_ShowAndBroadcast

\* C13 amended: a segment is valid when it is an optional + sign followed
\* by one or more hexadecimal digits of either case whose value is at most
\* 0xFF (so "A", "0FF" and "+F" are valid, "", "100" and "G1" are not); the
\* parse fails iff a segment is not valid or there are more than 6
\* segments, and otherwise gives octet i the value of segment i and leaves
\* the rest zero; the formatting and is_broadcast parts are as stated.
C13_HardwareAddr ==
    /\ hw_addr.some =>
          /\ hw_addr.val.ok <=>
                /\ C13_Count(hw_text) <= 6
                /\ \A j \in 1..C13_Count(hw_text) : C13_HexByte(C13_Seg(hw_text, j))
          /\ hw_addr.val.ok => hw_addr.val.val = C13_Octets(hw_text)
    /\ C13_ShowAndBroadcast

C13_Witness ==
    /\ hw_text = <<"F", "F", "-", "0", "A">>
    /\ hw_addr = [some |-> TRUE, val |-> [ok |-> TRUE, val |-> <<255, 10, 0, 0, 0, 0>>]]
    /\ hw_shown = [some |-> TRUE,
                   val |-> <<"F", "F", ":", "0", "A", ":", "0", "0", ":",
                             "0", "0", ":", "0", "0", ":", "0", "0">>]
    /\ hw_bcast = [some |-> TRUE, val |-> FALSE]

====
